---- MODULE Spec2Model ----
(***************************************************************************)
(* Model of sammynx/beagle, src/cmd/beagle-db/beagle-db.go:                *)
(*   - package db: the transaction wrapper Tx (statement cache, query log, *)
(*     Commit/Rollback logging, Selectx/Countx/Exec, capability dispatch); *)
(*   - package main: the ON DUPLICATE KEY UPDATE loop of                   *)
(*     Generator.generate.                                                 *)
(* Query texts are sequences of string tokens, so that concatenation and   *)
(* wrapping of texts are computed and texts differ when their tokens do.   *)
(***************************************************************************)
EXTENDS Integers, Sequences, FiniteSets, TLC

(***************************************************************************)
(* Bounds of the model.                                                    *)
(***************************************************************************)
\* longest query log (tx.queries) explored
MaxQueries == 3
\* longest option list given to Selectx
MaxOpts == 2
\* model clock ticks in one time.Second
Second == 2
\* longest elapsed time of a transaction, in ticks
MaxElapsed == 3
\* longest query log of the transaction that only selects
MaxSelects == 1
\* Preparex calls each of the concurrent callers makes
MaxCallsPerCaller == 2
\* longest column list of a generated type
MaxColumns == 3

(***************************************************************************)
(* Values.                                                                 *)
(***************************************************************************)
\* no error / no statement
Nil == "nil"
NoStmt == 0

\* errors of the collaborators (driver, statement, delegate, handle)
ErrDriver == "driver: prepare failed"
ErrStmt == "driver: statement failed"
ErrDelegate == "delegate failed"
ErrTx == "driver: commit/rollback failed"

\* sentinel errors of package db
ErrNoGetterFound == "ErrNoGetterFound"
ErrNoInserterFound == "ErrNoInserterFound"
ErrNoUpdaterFound == "ErrNoUpdaterFound"
ErrNoInsertOrUpdaterFound == "ErrNoInsertOrUpdaterFound"
ErrNoDeleterFound == "ErrNoDeleterFound"

\* Queryx values handed to the wrapper: (Query, Params)
QueryxSet ==
    { [Query |-> <<"q1">>, Params |-> <<>>],
      [Query |-> <<"q2">>, Params |-> <<7>>] }

\* objects handed to the wrapper: a concrete type and the interfaces it satisfies
ObjPlain == [type |-> "Plain", caps |-> {}]
ObjReader == [type |-> "Reader", caps |-> {"Getter", "Selecter"}]
ObjWriter ==
    [type |-> "Writer", caps |-> {"Inserter", "Updater", "InsertOrUpdater", "Deleter"}]
Objects == {ObjPlain, ObjReader, ObjWriter}

\* select options
Options == {"Paginate", "FilterActive"}

RECURSIVE SeqsUpTo(_, _)
SeqsUpTo(S, n) ==
    IF n = 0 THEN {<<>>}
    ELSE LET shorter == SeqsUpTo(S, n - 1)
         IN shorter \cup {Append(s, x) : s \in {t \in shorter : Len(t) = n - 1}, x \in S}

OptionLists == SeqsUpTo(Options, MaxOpts)

(***************************************************************************)
(* State.                                                                  *)
(***************************************************************************)
VARIABLES
    queries,          \* Tx.queries: the query log
    statementsCache,  \* Tx.statementsCache: query text -> statement
    driverStmts,      \* statements the driver has prepared: statement id -> its text
    last,             \* the last call on the wrapper: inputs, result, calls it made, log lines
    phase,            \* history: Open, Committed or RolledBack
    firstPrepared,    \* history: <<text, stmt>> of each text's first successful Preparex, in order
    prepareCalls,     \* history: the text of every Preparex call that was made, in order
    callers,          \* concurrent callers of Tx.Preparex: position and locals of each
    columns,          \* generator: the db-tagged columns of the type, in declaration order
    gi,               \* generator: index of the next column of the ON DUPLICATE KEY UPDATE loop
    clause            \* generator: what that loop has printed

vars ==
    <<queries, statementsCache, driverStmts, last, phase, firstPrepared, prepareCalls,
      callers, columns, gi, clause>>

\* the wrapper's fields and history
txVars == <<queries, statementsCache, driverStmts, last, phase, firstPrepared, prepareCalls>>
\* the generator's variables
genVars == <<columns, gi, clause>>

\* callers of one transaction that run concurrently
Callers == {"c1", "c2"}

EmptyMap == [t \in {} |-> NoStmt]

MapStore(m, k, v) == [t \in (DOMAIN m) \cup {k} |-> IF t = k THEN v ELSE m[t]]

NoCall ==
    [op |-> "none", obj |-> ObjPlain, text |-> <<>>, params |-> <<>>, options |-> <<>>,
     query |-> <<>>, known |-> FALSE, drvErr |-> Nil, delegateErr |-> Nil,
     stmt |-> NoStmt, err |-> Nil, count |-> 0,
     txCalls |-> <<>>, stmtCalls |-> <<>>, delegateCalls |-> <<>>, logs |-> <<>>,
     elapsed |-> 0, before |-> "Open"]


\* a caller that is not inside Preparex
Idle == [pc |-> "idle", query |-> <<>>, read |-> <<>>, stmt |-> NoStmt, err |-> Nil,
         rets |-> <<>>]

\* a transaction that has just begun
TxInit ==
    /\ queries = <<>>
    /\ statementsCache = EmptyMap
    /\ driverStmts = <<>>
    /\ last = NoCall
    /\ phase = "Open"
    /\ firstPrepared = <<>>
    /\ prepareCalls = <<>>
    /\ callers = [c \in Callers |-> Idle]

\* no generator run
GenIdle ==
    /\ columns = <<>>
    /\ gi = 1
    /\ clause = ""

Init == TxInit /\ GenIdle

(***************************************************************************)
(* Tx.Preparex: the statement cache.                                       *)
(***************************************************************************)
\* the call tx.Tx.Preparex(query) on the underlying handle
TxPreparex(query) == [method |-> "Preparex", text |-> query]

\* Preparex without the Load: every call asks the driver
Preparex_NoCache(query, drvErr) ==
    LET logged == Append(queries, query)
        stmt == Len(driverStmts) + 1
    IN IF drvErr # Nil
       THEN [queries |-> logged, statementsCache |-> statementsCache,
             driverStmts |-> driverStmts,
             stmt |-> NoStmt, err |-> drvErr, txCalls |-> <<TxPreparex(query)>>]
       ELSE [queries |-> logged,
             statementsCache |-> MapStore(statementsCache, query, stmt),
             driverStmts |-> Append(driverStmts, query),
             stmt |-> stmt, err |-> Nil, txCalls |-> <<TxPreparex(query)>>]

\* Preparex with the Store moved before the error check
Preparex_StoreBeforeCheck(query, drvErr) ==
    LET logged == Append(queries, query)
        stmt == IF drvErr # Nil THEN NoStmt ELSE Len(driverStmts) + 1
    IN IF query \in DOMAIN statementsCache
       THEN [queries |-> logged, statementsCache |-> statementsCache,
             driverStmts |-> driverStmts,
             stmt |-> statementsCache[query], err |-> Nil, txCalls |-> <<>>]
       ELSE [queries |-> logged,
             statementsCache |-> MapStore(statementsCache, query, stmt),
             driverStmts |-> IF drvErr # Nil THEN driverStmts
                             ELSE Append(driverStmts, query),
             stmt |-> stmt, err |-> drvErr, txCalls |-> <<TxPreparex(query)>>]

\* Preparex with the append to tx.queries moved after the Load
Preparex_LogOnMiss(query, drvErr) ==
    LET logged == Append(queries, query)
    IN IF query \in DOMAIN statementsCache
       THEN [queries |-> queries, statementsCache |-> statementsCache,
             driverStmts |-> driverStmts,
             stmt |-> statementsCache[query], err |-> Nil, txCalls |-> <<>>]
       ELSE IF drvErr # Nil
       THEN [queries |-> logged, statementsCache |-> statementsCache,
             driverStmts |-> driverStmts,
             stmt |-> NoStmt, err |-> drvErr, txCalls |-> <<TxPreparex(query)>>]
       ELSE LET stmt == Len(driverStmts) + 1
            IN [queries |-> logged,
                statementsCache |-> MapStore(statementsCache, query, stmt),
                driverStmts |-> Append(driverStmts, query),
                stmt |-> stmt, err |-> Nil, txCalls |-> <<TxPreparex(query)>>]

\* Tx.Preparex(query); drvErr is what the driver's prepare answers if it is asked.
\* The result carries the new fields of tx, the returned (stmt, err) and the
\* calls made on the underlying handle.
Preparex(query, drvErr) ==
    LET logged == Append(queries, query)
    IN IF query \in DOMAIN statementsCache
       THEN [queries |-> logged, statementsCache |-> statementsCache,
             driverStmts |-> driverStmts,
             stmt |-> statementsCache[query], err |-> Nil, txCalls |-> <<>>]
       ELSE IF drvErr # Nil
       THEN [queries |-> logged, statementsCache |-> statementsCache,
             driverStmts |-> driverStmts,
             stmt |-> NoStmt, err |-> drvErr, txCalls |-> <<TxPreparex(query)>>]
       ELSE LET stmt == Len(driverStmts) + 1
            IN [queries |-> logged,
                statementsCache |-> MapStore(statementsCache, query, stmt),
                driverStmts |-> Append(driverStmts, query),
                stmt |-> stmt, err |-> Nil, txCalls |-> <<TxPreparex(query)>>]

\* the driver answers only when it is asked: a cached text never reaches it
DriverAnswers(query) ==
    IF query \in DOMAIN statementsCache THEN {Nil} ELSE {Nil, ErrDriver}

\* texts that some Preparex call has already returned a statement for
KnownTexts == {firstPrepared[i][1] : i \in DOMAIN firstPrepared}

FirstStmt(text) ==
    LET i == CHOOSE j \in DOMAIN firstPrepared : firstPrepared[j][1] = text
    IN firstPrepared[i][2]

\* the part every caller of Preparex shares: tx's fields and the history
AfterPreparex(query, r) ==
    /\ queries' = r.queries
    /\ statementsCache' = r.statementsCache
    /\ driverStmts' = r.driverStmts
    /\ prepareCalls' = Append(prepareCalls, query)
    /\ firstPrepared' =
         IF r.err = Nil /\ query \notin KnownTexts
         THEN Append(firstPrepared, <<query, r.stmt>>)
         ELSE firstPrepared
    /\ UNCHANGED <<phase, callers, genVars>>

\* a direct call of tx.Preparex(query)
PreparexCall(query, drvErr) ==
    /\ Len(queries) < MaxQueries
    /\ drvErr \in DriverAnswers(query)
    /\ LET r == Preparex(query, drvErr)
       IN /\ AfterPreparex(query, r)
          /\ last' = [NoCall EXCEPT !.op = "Preparex", !.text = query,
                        !.query = query, !.drvErr = drvErr,
                        !.known = (query \in KnownTexts), !.before = phase,
                        !.stmt = r.stmt, !.err = r.err, !.txCalls = r.txCalls]

(***************************************************************************)
(* Tx.Exec, Tx.Countx.                                                     *)
(***************************************************************************)
StmtCall(method, stmt, dest, params) ==
    [method |-> method, stmt |-> stmt, dest |-> dest, params |-> params]

Exec(qx, drvErr, stmtErr) ==
    /\ Len(queries) < MaxQueries
    /\ drvErr \in DriverAnswers(qx.Query)
    /\ LET query == qx.Query
           r == Preparex(query, drvErr)
           base == [NoCall EXCEPT !.op = "Exec", !.text = query, !.params = qx.Params,
                      !.query = query, !.drvErr = drvErr,
                      !.known = (query \in KnownTexts), !.before = phase,
                      !.stmt = r.stmt, !.txCalls = r.txCalls]
       IN /\ AfterPreparex(query, r)
          /\ last' = IF r.err # Nil
                     THEN [base EXCEPT !.err = r.err]
                     ELSE [base EXCEPT !.err = stmtErr,
                             !.stmtCalls = <<StmtCall("Exec", r.stmt, "", qx.Params)>>]

\* fmt.Sprintf("SELECT COUNT(*) FROM (%s) q", query)
CountText(query) == <<"SELECT COUNT(*) FROM (">> \o query \o <<") q">>

\* rows is what the count statement scans into count when it succeeds
Countx(qx, drvErr, stmtErr, rows) ==
    /\ Len(queries) < MaxQueries
    /\ drvErr \in DriverAnswers(CountText(qx.Query))
    /\ LET query == CountText(qx.Query)
           r == Preparex(query, drvErr)
           base == [NoCall EXCEPT !.op = "Countx", !.text = qx.Query, !.params = qx.Params,
                      !.query = query, !.drvErr = drvErr,
                      !.known = (query \in KnownTexts), !.before = phase,
                      !.stmt = r.stmt, !.txCalls = r.txCalls]
       IN /\ AfterPreparex(query, r)
          /\ last' = IF r.err # Nil
                     THEN [base EXCEPT !.err = r.err, !.count = 0]
                     ELSE [base EXCEPT !.err = stmtErr,
                             !.count = IF stmtErr = Nil THEN rows ELSE 0,
                             !.stmtCalls = <<StmtCall("Get", r.stmt, "count", qx.Params)>>]


(***************************************************************************)
(* Log lines of the package-level logger.                                  *)
(***************************************************************************)
LogLine(level, msg, type, qs, elapsed) ==
    [level |-> level, msg |-> msg, type |-> type, queries |-> qs, elapsed |-> elapsed]

(***************************************************************************)
(* Tx.Selectx.                                                             *)
(***************************************************************************)
\* option.Wrap(q, params): the rewritten (text, params)
Wrap(option, q, params) ==
    IF option = "Paginate"
    THEN <<q \o <<" LIMIT ? OFFSET ?">>, params \o <<10, 5>>>>
    ELSE <<(<<"SELECT * FROM (">> \o q) \o <<") f WHERE active = ?">>, params \o <<1>>>>

RECURSIVE ApplyOptions_Reversed(_, _, _)
\* the options applied from the last to the first
ApplyOptions_Reversed(q, params, options) ==
    IF options = <<>>
    THEN <<q, params>>
    ELSE LET w == Wrap(options[Len(options)], q, params)
         IN ApplyOptions_Reversed(w[1], w[2], SubSeq(options, 1, Len(options) - 1))

\* for _, option := range options { q, params = option.Wrap(q, params) }
RECURSIVE ApplyOptions(_, _, _)
ApplyOptions(q, params, options) ==
    IF options = <<>>
    THEN <<q, params>>
    ELSE LET w == Wrap(Head(options), q, params)
         IN ApplyOptions(w[1], w[2], Tail(options))

\* a call of a capability method of o, given the underlying handle tx.Tx
DelegateCall(method, o, args) ==
    [method |-> method, type |-> o.type, handle |-> "tx.Tx", args |-> args]

Selectx(maxLog, o, qx, options, drvErr, resErr) ==
    LET final == ApplyOptions(qx.Query, qx.Params, options)
        q == final[1]
        params == final[2]
        base == [NoCall EXCEPT !.op = "Selectx", !.obj = o, !.text = qx.Query,
                   !.params = qx.Params, !.options = options, !.before = phase,
                   !.logs = <<LogLine("Debug", "query", "", q, 0)>>]
    IN IF "Selecter" \in o.caps
       THEN /\ drvErr = Nil
            /\ last' = [base EXCEPT !.err = resErr, !.delegateErr = resErr,
                          !.delegateCalls = <<DelegateCall("Select", o, <<q, params>>)>>]
            /\ UNCHANGED <<queries, statementsCache, driverStmts, phase,
                           firstPrepared, prepareCalls, callers, genVars>>
       ELSE /\ Len(queries) < maxLog
            /\ drvErr \in DriverAnswers(q)
            /\ LET r == Preparex(q, drvErr)
                   prep == [base EXCEPT !.known = (q \in KnownTexts),
                              !.query = q, !.drvErr = drvErr,
                              !.stmt = r.stmt, !.txCalls = r.txCalls]
               IN /\ AfterPreparex(q, r)
                  /\ last' = IF r.err # Nil
                             THEN [prep EXCEPT !.err = r.err]
                             ELSE [prep EXCEPT !.err = resErr,
                                     !.stmtCalls =
                                        <<StmtCall("Select", r.stmt, o.type, params)>>]

(***************************************************************************)
(* Capability dispatch: Getx, Get, InsertOrUpdate, Update, Delete, Insert. *)
(***************************************************************************)
\* a dispatcher that answers every missing capability with the getter's sentinel
Dispatch_GetterSentinel(o, capability, method, args, notFound, delegateErr) ==
    IF capability \in o.caps
    THEN [err |-> delegateErr,
          delegateCalls |-> <<DelegateCall(method, o, args)>>,
          logs |-> <<>>]
    ELSE [err |-> ErrNoGetterFound,
          delegateCalls |-> <<>>,
          logs |-> <<LogLine("Error", "not found: " \o capability, o.type, <<>>, 0)>>]

\* a dispatcher that calls the delegate and drops its error
Dispatch_DropsError(o, capability, method, args, notFound, delegateErr) ==
    IF capability \in o.caps
    THEN [err |-> Nil,
          delegateCalls |-> <<DelegateCall(method, o, args)>>,
          logs |-> <<>>]
    ELSE [err |-> notFound,
          delegateCalls |-> <<>>,
          logs |-> <<LogLine("Error", "not found: " \o capability, o.type, <<>>, 0)>>]

\* if u, ok := o.(capability); ok { return u.method(tx.Tx, args...) }
\* log.Error("No ... found for object: %s", reflect.TypeOf(o)); return notFound
Dispatch(o, capability, method, args, notFound, delegateErr) ==
    IF capability \in o.caps
    THEN [err |-> delegateErr,
          delegateCalls |-> <<DelegateCall(method, o, args)>>,
          logs |-> <<>>]
    ELSE [err |-> notFound,
          delegateCalls |-> <<>>,
          logs |-> <<LogLine("Error", "not found: " \o capability, o.type, <<>>, 0)>>]

\* the delegate answers only when it is called
DelegateAnswers(o, capability) ==
    IF capability \in o.caps THEN {Nil, ErrDelegate} ELSE {Nil}

\* a dispatch call changes nothing of tx
AfterDispatch(op, o, qx, delegateErr, r) ==
    /\ last' = [NoCall EXCEPT !.op = op, !.obj = o, !.text = qx.Query,
                  !.params = qx.Params, !.before = phase, !.err = r.err,
                  !.delegateErr = delegateErr,
                  !.delegateCalls = r.delegateCalls, !.logs = r.logs]
    /\ UNCHANGED <<queries, statementsCache, driverStmts, phase, firstPrepared, prepareCalls,
                   callers, genVars>>

NoQueryx == [Query |-> <<>>, Params |-> <<>>]

Getx(o, qx, delegateErr) ==
    /\ delegateErr \in DelegateAnswers(o, "Getter")
    /\ AfterDispatch("Getx", o, qx, delegateErr,
                     Dispatch(o, "Getter", "Get", <<qx>>, ErrNoGetterFound, delegateErr))

Get(o, qx, delegateErr) ==
    /\ delegateErr \in DelegateAnswers(o, "Getter")
    /\ AfterDispatch("Get", o, qx, delegateErr,
                     Dispatch(o, "Getter", "Get", <<qx>>, ErrNoGetterFound, delegateErr))

InsertOrUpdate(o, delegateErr) ==
    /\ delegateErr \in DelegateAnswers(o, "InsertOrUpdater")
    /\ AfterDispatch("InsertOrUpdate", o, NoQueryx, delegateErr,
                     Dispatch(o, "InsertOrUpdater", "InsertOrUpdate", <<>>,
                              ErrNoInsertOrUpdaterFound, delegateErr))

Update(o, delegateErr) ==
    /\ delegateErr \in DelegateAnswers(o, "Updater")
    /\ AfterDispatch("Update", o, NoQueryx, delegateErr,
                     Dispatch(o, "Updater", "Update", <<>>, ErrNoUpdaterFound, delegateErr))

Delete(o, delegateErr) ==
    /\ delegateErr \in DelegateAnswers(o, "Deleter")
    /\ AfterDispatch("Delete", o, NoQueryx, delegateErr,
                     Dispatch(o, "Deleter", "Delete", <<>>, ErrNoDeleterFound, delegateErr))

\* Insert also logs the delegate's error before returning it
Insert(o, delegateErr) ==
    /\ delegateErr \in DelegateAnswers(o, "Inserter")
    /\ LET r == Dispatch(o, "Inserter", "Insert", <<>>, ErrNoInserterFound, delegateErr)
       IN AfterDispatch("Insert", o, NoQueryx, delegateErr,
                        IF "Inserter" \in o.caps /\ r.err # Nil
                        THEN [r EXCEPT !.logs = <<LogLine("Error", r.err, "", <<>>, 0)>>]
                        ELSE r)

(***************************************************************************)
(* Tx.Commit, Tx.Rollback.                                                 *)
(***************************************************************************)
\* the threshold test with >= for >
TookLong_AtLeast(elapsed) == elapsed >= 1 * Second

\* time.Now().Sub(tx.time) > 1*time.Second
TookLong(elapsed) == elapsed > 1 * Second

\* elapsed is time.Now().Sub(tx.time) in ticks; txErr what the handle's Commit answers
Commit(elapsed, txErr) ==
    /\ last' = [NoCall EXCEPT !.op = "Commit", !.before = phase, !.err = txErr,
                  !.elapsed = elapsed,
                  !.txCalls = <<[method |-> "Commit", text |-> <<>>]>>,
                  !.logs =
                     (IF TookLong(elapsed)
                      THEN <<LogLine("Warning", "commit took long", "", queries, elapsed)>>
                      ELSE <<>>)
                     \o <<LogLine("Info", "commit", "", <<>>, elapsed)>>]
    /\ phase' = IF phase = "Open" THEN "Committed" ELSE phase
    /\ UNCHANGED <<queries, statementsCache, driverStmts, firstPrepared, prepareCalls,
                   callers, genVars>>

Rollback(elapsed, txErr) ==
    /\ last' = [NoCall EXCEPT !.op = "Rollback", !.before = phase, !.err = txErr,
                  !.elapsed = elapsed,
                  !.txCalls = <<[method |-> "Rollback", text |-> <<>>]>>,
                  !.logs = <<LogLine("Info", "rollback", "", <<>>, elapsed)>>]
    /\ phase' = IF phase = "Open" THEN "RolledBack" ELSE phase
    /\ UNCHANGED <<queries, statementsCache, driverStmts, firstPrepared, prepareCalls,
                   callers, genVars>>

(***************************************************************************)
(* One transaction used by a single caller.                                *)
(***************************************************************************)
DriverErrs == {Nil, ErrDriver}
StmtErrs == {Nil, ErrStmt}
DelegateErrs == {Nil, ErrDelegate}
\* the statement answers only when the prepare gave one
StmtAnswers(d) == IF d = Nil THEN StmtErrs ELSE {Nil}
TxErrs == {Nil, ErrTx}
Elapsed == 0..MaxElapsed

Next ==
    \/ \E qx \in QueryxSet, d \in DriverErrs : PreparexCall(qx.Query, d)
    \/ \E qx \in QueryxSet, d \in DriverErrs : \E e \in StmtAnswers(d) : Exec(qx, d, e)
    \/ \E qx \in QueryxSet, d \in DriverErrs : \E e \in StmtAnswers(d) : Countx(qx, d, e, 3)
    \/ \E o \in Objects, qx \in QueryxSet, d \in DriverErrs : \E e \in StmtAnswers(d) :
          Selectx(MaxQueries, o, qx, <<>>, d, e)
    \/ \E o \in Objects, qx \in QueryxSet, e \in DelegateErrs : Getx(o, qx, e)
    \/ \E o \in Objects, qx \in QueryxSet, e \in DelegateErrs : Get(o, qx, e)
    \/ \E o \in Objects, e \in DelegateErrs : InsertOrUpdate(o, e)
    \/ \E o \in Objects, e \in DelegateErrs : Update(o, e)
    \/ \E o \in Objects, e \in DelegateErrs : Delete(o, e)
    \/ \E o \in Objects, e \in DelegateErrs : Insert(o, e)
    \/ \E t \in Elapsed, e \in TxErrs : Commit(t, e)
    \/ \E t \in Elapsed, e \in TxErrs : Rollback(t, e)

Spec == Init /\ [][Next]_vars


(***************************************************************************)
(* A transaction that only runs Selectx, with every option list.           *)
(***************************************************************************)
\* a target without and a target with the Select capability
SelectTargets == {ObjPlain, ObjReader}

\* the queries that come with params
SelectQueryxSet == {qx \in QueryxSet : qx.Params # <<>>}

NextSelect ==
    \E o \in SelectTargets, qx \in SelectQueryxSet, opts \in OptionLists, d \in DriverErrs :
       \E e \in StmtAnswers(d) : Selectx(MaxSelects, o, qx, opts, d, e)

SpecSelect == Init /\ [][NextSelect]_vars

(***************************************************************************)
(* Tx.Preparex called by concurrent callers of one transaction.  Each      *)
(* statement of Preparex is a step.  The append to tx.queries is an        *)
(* unsynchronised read and write of the slice (a data race): a caller      *)
(* writes back the slice it read, extended by its query, so appends of     *)
(* other callers in between are lost.  Load and Store of the sync.Map are  *)
(* atomic.                                                                 *)
(***************************************************************************)
SetCaller(c, r) == callers' = [callers EXCEPT ![c] = r]

\* entry of tx.Preparex(query)
ConcCall(c, query) ==
    /\ callers[c].pc = "idle"
    /\ Len(callers[c].rets) < MaxCallsPerCaller
    /\ SetCaller(c, [callers[c] EXCEPT !.pc = "read", !.query = query,
                       !.stmt = NoStmt, !.err = Nil])
    /\ UNCHANGED <<txVars, genVars>>

\* tx.queries = append(tx.queries, query): the read of tx.queries
ConcReadQueries(c) ==
    /\ callers[c].pc = "read"
    /\ SetCaller(c, [callers[c] EXCEPT !.pc = "write", !.read = queries])
    /\ UNCHANGED <<txVars, genVars>>

\* tx.queries = append(tx.queries, query): the write of tx.queries
ConcWriteQueries(c) ==
    /\ callers[c].pc = "write"
    /\ queries' = Append(callers[c].read, callers[c].query)
    /\ SetCaller(c, [callers[c] EXCEPT !.pc = "load", !.read = <<>>])
    /\ UNCHANGED <<statementsCache, driverStmts, last, phase, firstPrepared, prepareCalls,
                   genVars>>

\* if stmt, ok := tx.statementsCache.Load(query); ok { return stmt, nil }
ConcLoad(c) ==
    /\ callers[c].pc = "load"
    /\ IF callers[c].query \in DOMAIN statementsCache
       THEN SetCaller(c, [callers[c] EXCEPT !.pc = "idle",
                            !.rets = Append(@, <<callers[c].query,
                                                 statementsCache[callers[c].query]>>)])
       ELSE SetCaller(c, [callers[c] EXCEPT !.pc = "prepare"])
    /\ UNCHANGED <<txVars, genVars>>

\* stmt, err := tx.Tx.Preparex(query)
ConcDriverPrepare(c, drvErr) ==
    /\ callers[c].pc = "prepare"
    /\ IF drvErr # Nil
       THEN /\ SetCaller(c, [callers[c] EXCEPT !.pc = "check", !.err = drvErr])
            /\ UNCHANGED driverStmts
       ELSE /\ SetCaller(c, [callers[c] EXCEPT !.pc = "check",
                               !.stmt = Len(driverStmts) + 1])
            /\ driverStmts' = Append(driverStmts, callers[c].query)
    /\ UNCHANGED <<queries, statementsCache, last, phase, firstPrepared, prepareCalls,
                   genVars>>

\* Preparex without the error check: it stores whatever the driver answered
AfterDriverPrepare_NoCheck(err) == "store"

\* where Preparex goes after the driver's answer: if err != nil { return nil, err }
AfterDriverPrepare(err) == IF err # Nil THEN "idle" ELSE "store"

ConcCheck(c) ==
    /\ callers[c].pc = "check"
    /\ LET to == AfterDriverPrepare(callers[c].err)
       IN SetCaller(c, [callers[c] EXCEPT !.pc = to,
                          !.rets = IF to = "idle"
                                   THEN Append(@, <<callers[c].query, NoStmt>>)
                                   ELSE @])
    /\ UNCHANGED <<txVars, genVars>>

\* tx.statementsCache.Store(query, stmt); return stmt, nil
ConcStore(c) ==
    /\ callers[c].pc = "store"
    /\ statementsCache' = MapStore(statementsCache, callers[c].query, callers[c].stmt)
    /\ SetCaller(c, [callers[c] EXCEPT !.pc = "idle",
                       !.rets = Append(@, <<callers[c].query, callers[c].stmt>>)])
    /\ UNCHANGED <<queries, driverStmts, last, phase, firstPrepared, prepareCalls, genVars>>

NextConc ==
    \/ \E c \in Callers, qx \in QueryxSet : ConcCall(c, qx.Query)
    \/ \E c \in Callers : ConcReadQueries(c)
    \/ \E c \in Callers : ConcWriteQueries(c)
    \/ \E c \in Callers : ConcLoad(c)
    \/ \E c \in Callers, d \in DriverErrs : ConcDriverPrepare(c, d)
    \/ \E c \in Callers : ConcCheck(c)
    \/ \E c \in Callers : ConcStore(c)

SpecConc == Init /\ [][NextConc]_vars

(***************************************************************************)
(* Generator.generate: the ON DUPLICATE KEY UPDATE clause of the           *)
(* InsertOrUpdate query.                                                   *)
(***************************************************************************)
ColumnNames == {"created_at", "id", "name", "updated_at"}

\* column lists without repetition
ColumnLists ==
    {cs \in SeqsUpTo(ColumnNames, MaxColumns) :
        \A i, j \in DOMAIN cs : i # j => cs[i] # cs[j]}

\* a column name between backquotes (the model writes a backquote as ')
Quoted(column) == "'" \o column \o "'"

\* a run of the generator for a type with some column list
GenInit ==
    /\ columns \in ColumnLists
    /\ gi = 1
    /\ clause = ""

\* one iteration of: for i, column := range columns { ... } (i is gi - 1)
GenColumn ==
    /\ gi <= Len(columns)
    /\ clause' =
         IF columns[gi] = "created_at"
         THEN clause
         ELSE (IF gi - 1 > 0 THEN clause \o ", " ELSE clause)
                 \o Quoted(columns[gi]) \o "=:" \o columns[gi]
    /\ gi' = gi + 1
    /\ UNCHANGED <<columns, txVars, callers>>

GenDone == gi = Len(columns) + 1

NextGen == GenColumn

InitGen == TxInit /\ GenInit

SpecGen == InitGen /\ [][NextGen]_vars

(***************************************************************************)
(* Properties of one transaction used by a single caller (Spec).           *)
(***************************************************************************)
RECURSIVE IsSubseq(_, _)
\* a is b with some elements left out
IsSubseq(a, b) ==
    IF a = <<>> THEN TRUE
    ELSE IF b = <<>> THEN FALSE
    ELSE IF Head(a) = Head(b) THEN IsSubseq(Tail(a), Tail(b))
    ELSE IsSubseq(a, Tail(b))

RECURSIVE FirstOccurrences(_)
\* s without the repetitions of an element that occurred before
FirstOccurrences(s) ==
    IF s = <<>> THEN <<>>
    ELSE LET init == SubSeq(s, 1, Len(s) - 1)
             x == s[Len(s)]
         IN IF \E i \in DOMAIN init : init[i] = x
            THEN FirstOccurrences(init)
            ELSE Append(FirstOccurrences(init), x)

PrepareOps == {"Preparex", "Exec", "Countx", "Selectx"}
DispatchOps == {"Getx", "Get", "InsertOrUpdate", "Update", "Delete", "Insert"}

\* the last call went through Tx.Preparex
Prepared == last.op \in PrepareOps /\ last.query # <<>>

\* C1: once a Preparex call for a text has succeeded, every later Preparex call
\* with that text (after any other calls) returns the statement of the first
\* one, without a call of the handle's Preparex, and the cache entry stays.
C1_SameStatementNoSecondPrepare ==
    /\ \A t \in KnownTexts :
          t \in DOMAIN statementsCache /\ statementsCache[t] = FirstStmt(t)
    /\ (Prepared /\ last.known) =>
          /\ last.err = (IF last.stmtCalls = <<>> THEN Nil ELSE last.err)
          /\ last.stmt = FirstStmt(last.query)
          /\ last.txCalls = <<>>

\* a third Preparex call repeats the text of the first, another text in between
C1_Witness ==
    /\ Prepared /\ last.known /\ last.op = "Preparex"
    /\ Len(queries) = 3
    /\ queries[1] = queries[3] /\ queries[2] # queries[3]
    /\ Len(driverStmts) = 2

\* C2 (as claimed): a Preparex call for an uncached text whose driver prepare
\* fails returns the driver's error and leaves the statement cache and the
\* query log unchanged.
C2_FailedPrepareLeavesCacheAndLog ==
    [][(last'.op \in PrepareOps /\ last'.query # <<>> /\ last'.drvErr = ErrDriver
          /\ last'.query \notin DOMAIN statementsCache)
       => /\ last'.err = ErrDriver
          /\ statementsCache' = statementsCache
          /\ queries' = queries]_vars

\* C2 (amended): a Preparex call for an uncached text whose driver prepare fails
\* returns the driver's error and no statement, leaves the statement cache
\* unchanged, and has appended its text once to the query log.
C2_FailedPrepareLeavesCacheAppendsLog ==
    [][(last'.op \in PrepareOps /\ last'.query # <<>> /\ last'.drvErr = ErrDriver
          /\ last'.query \notin DOMAIN statementsCache)
       => /\ last'.err = ErrDriver
          /\ last'.stmt = NoStmt
          /\ statementsCache' = statementsCache
          /\ queries' = Append(queries, last'.query)]_vars

\* a failed prepare after a successful one: the cache is not empty
C2_Witness ==
    /\ Prepared /\ last.drvErr = ErrDriver /\ last.err = ErrDriver
    /\ DOMAIN statementsCache # {}
    /\ last.query \notin DOMAIN statementsCache
    /\ Len(queries) >= 2

CapabilityOf(op) ==
    CASE op \in {"Getx", "Get"} -> "Getter"
      [] op = "Insert" -> "Inserter"
      [] op = "Update" -> "Updater"
      [] op = "InsertOrUpdate" -> "InsertOrUpdater"
      [] op = "Delete" -> "Deleter"

SentinelOf(op) ==
    CASE op \in {"Getx", "Get"} -> ErrNoGetterFound
      [] op = "Insert" -> ErrNoInserterFound
      [] op = "Update" -> ErrNoUpdaterFound
      [] op = "InsertOrUpdate" -> ErrNoInsertOrUpdaterFound
      [] op = "Delete" -> ErrNoDeleterFound

MethodOf(op) == IF op = "Getx" THEN "Get" ELSE op

ArgsOf(call) ==
    IF call.op \in {"Getx", "Get"}
    THEN <<[Query |-> call.text, Params |-> call.params]>>
    ELSE <<>>

\* C3: a dispatch call with an object that lacks the operation's capability
\* returns that operation's sentinel error, calls neither the object nor the
\* underlying handle nor a statement, and leaves cache and query log unchanged.
C3_MissingCapabilitySentinel ==
    [][(last'.op \in DispatchOps /\ CapabilityOf(last'.op) \notin last'.obj.caps)
       => /\ last'.err = SentinelOf(last'.op)
          /\ last'.delegateCalls = <<>>
          /\ last'.txCalls = <<>>
          /\ last'.stmtCalls = <<>>
          /\ UNCHANGED <<queries, statementsCache, driverStmts>>]_vars

\* an Update of an object that has other capabilities, on a used transaction
C3_Witness ==
    /\ last.op = "Update" /\ last.obj = ObjReader
    /\ last.err = ErrNoUpdaterFound
    /\ DOMAIN statementsCache # {} /\ Len(queries) >= 2

\* C4: a dispatch call with an object that has the operation's capability
\* calls exactly the matching method of the object, once, with the underlying
\* handle and the dispatcher's arguments, and returns what that method returned.
C4_DelegateOnceResultUnchanged ==
    (last.op \in DispatchOps /\ CapabilityOf(last.op) \in last.obj.caps)
    => /\ last.delegateCalls = <<DelegateCall(MethodOf(last.op), last.obj, ArgsOf(last))>>
       /\ last.err = last.delegateErr
       /\ last.txCalls = <<>>
       /\ last.stmtCalls = <<>>

\* the delegate of an object with several capabilities fails
C4_Witness ==
    /\ last.op = "InsertOrUpdate" /\ last.obj = ObjWriter
    /\ last.delegateErr = ErrDelegate /\ last.err = ErrDelegate
    /\ Len(last.delegateCalls) = 1

\* C5: a Commit that took longer than one second logs a warning whose query
\* list holds every text prepared before, in the order of first preparation
\* (of the first successful prepares, and of the first Preparex calls),
\* followed by the informational line; a Commit within one second logs the
\* informational line only.
C5_SlowCommitWarning ==
    (last.op = "Commit") =>
        IF last.elapsed > Second
        THEN /\ Len(last.logs) = 2
             /\ last.logs[1].level = "Warning"
             /\ last.logs[2].level = "Info"
             /\ \A t \in KnownTexts :
                   \E i \in DOMAIN last.logs[1].queries : last.logs[1].queries[i] = t
             /\ IsSubseq([i \in DOMAIN firstPrepared |-> firstPrepared[i][1]],
                         last.logs[1].queries)
             /\ FirstOccurrences(last.logs[1].queries) = FirstOccurrences(prepareCalls)
        ELSE /\ Len(last.logs) = 1
             /\ last.logs[1].level = "Info"

\* a slow commit after three Preparex calls of two texts, one of them failed first
C5_Witness ==
    /\ last.op = "Commit" /\ last.elapsed > Second
    /\ Len(queries) = 3 /\ Len(firstPrepared) = 2
    /\ firstPrepared[1][1] # queries[1]

\* a commit that took exactly one second
C5_WitnessAtThreshold ==
    /\ last.op = "Commit" /\ last.elapsed = Second /\ Len(queries) >= 1

\* C7 (as claimed): once Commit or Rollback has been called, no later call
\* reaches the underlying handle or changes the statement cache or query log.
C7_TerminalIsFinal ==
    [][(phase # "Open" /\ last' # last)
       => /\ last'.txCalls = <<>>
          /\ statementsCache' = statementsCache
          /\ queries' = queries]_vars

\* C8: every Preparex call, hit or miss, direct or through Exec, Countx or
\* Selectx, appends its text once to the query log: the log is the sequence of
\* the texts of the Preparex calls, in call order.
C8_LogIsPrepareCalls ==
    /\ queries = prepareCalls
    /\ Prepared => (queries # <<>> /\ queries[Len(queries)] = last.query)

\* a hit, a failed miss and a successful miss, through three different callers
C8_Witness ==
    /\ Len(queries) = 3
    /\ queries[1] = queries[2]
    /\ Len(driverStmts) = 1
    /\ last.op = "Countx" /\ last.drvErr = ErrDriver


(***************************************************************************)
(* Properties of Selectx (SpecSelect).                                     *)
(***************************************************************************)
RECURSIVE OptionsInOrder(_, _, _)
\* the text and params after the first n options, each applied to the result
\* of the one before it
OptionsInOrder(qx, options, n) ==
    IF n = 0
    THEN <<qx.Query, qx.Params>>
    ELSE LET before == OptionsInOrder(qx, options, n - 1)
         IN Wrap(options[n], before[1], before[2])

\* C6: Selectx applies its options left to right, each to the text and params
\* the previous one produced.  A target with the Select capability gets the
\* final text and params, nothing is prepared and cache and query log stay;
\* otherwise the final text is prepared through the statement cache and the
\* generic select runs on that statement with the final params.
C6_OptionsLeftToRight ==
    [][(last' # last /\ last'.op = "Selectx")
       => LET final == OptionsInOrder([Query |-> last'.text, Params |-> last'.params],
                                      last'.options, Len(last'.options))
          IN IF "Selecter" \in last'.obj.caps
             THEN /\ last'.delegateCalls =
                        <<DelegateCall("Select", last'.obj, <<final[1], final[2]>>)>>
                  /\ last'.err = last'.delegateErr
                  /\ last'.txCalls = <<>>
                  /\ last'.stmtCalls = <<>>
                  /\ UNCHANGED <<queries, statementsCache, driverStmts>>
             ELSE /\ last'.delegateCalls = <<>>
                  /\ last'.query = final[1]
                  /\ queries' = Append(queries, final[1])
                  /\ IF final[1] \in DOMAIN statementsCache
                     THEN /\ last'.txCalls = <<>>
                          /\ last'.stmt = statementsCache[final[1]]
                     ELSE last'.txCalls = <<TxPreparex(final[1])>>
                  /\ IF last'.drvErr # Nil
                     THEN last'.err = last'.drvErr /\ last'.stmtCalls = <<>>
                     ELSE /\ final[1] \in DOMAIN statementsCache'
                          /\ last'.stmt = statementsCache'[final[1]]
                          /\ last'.stmtCalls =
                               <<StmtCall("Select", last'.stmt, last'.obj.type, final[2])>>
         ]_vars

\* two options that do not commute, on a target without the Select capability
C6_Witness ==
    /\ last.op = "Selectx" /\ last.obj = ObjPlain
    /\ last.options = <<"Paginate", "FilterActive">>
    /\ last.text = <<"q2">>
    /\ last.query = <<"SELECT * FROM (", "q2", " LIMIT ? OFFSET ?", ") f WHERE active = ?">>
    /\ last.stmtCalls = <<StmtCall("Select", 1, "Plain", <<7, 10, 5, 1>>)>>

\* the same options on a target with the Select capability
C6_WitnessSelecter ==
    /\ last.op = "Selectx" /\ last.obj = ObjReader
    /\ last.options = <<"FilterActive", "Paginate">>
    /\ Len(last.delegateCalls) = 1

(***************************************************************************)
(* Properties of concurrent Preparex calls (SpecConc).                     *)
(***************************************************************************)
\* C9: with concurrent first Preparex calls for one text, whatever the
\* interleaving, the cache holds for a text only a statement that a driver
\* prepare for that text returned (and a caller is returned only such a
\* statement); the interleaving in which both calls reach the driver, get
\* different statements and the later Store replaces the earlier entry is
\* C9_Witness.
C9_CacheHoldsDriverStatements ==
    /\ \A t \in DOMAIN statementsCache :
          /\ statementsCache[t] \in DOMAIN driverStmts
          /\ driverStmts[statementsCache[t]] = t
    /\ \A c \in Callers : \A i \in DOMAIN callers[c].rets :
          callers[c].rets[i][2] # NoStmt =>
             /\ callers[c].rets[i][2] \in DOMAIN driverStmts
             /\ driverStmts[callers[c].rets[i][2]] = callers[c].rets[i][1]

\* both callers prepared the same text at the driver and were returned
\* different statements; the later Store replaced the entry, and the next
\* Preparex call of the first caller is returned the second statement
C9_Witness ==
    \E c1, c2 \in Callers :
       /\ c1 # c2
       /\ Len(callers[c1].rets) = 2 /\ Len(callers[c2].rets) >= 1
       /\ callers[c1].rets[1][1] = callers[c2].rets[1][1]
       /\ callers[c1].rets[2][1] = callers[c1].rets[1][1]
       /\ callers[c1].rets[1][2] # NoStmt /\ callers[c2].rets[1][2] # NoStmt
       /\ callers[c1].rets[1][2] # callers[c2].rets[1][2]
       /\ callers[c1].rets[2][2] = callers[c2].rets[1][2]
       /\ statementsCache[callers[c1].rets[1][1]] = callers[c2].rets[1][2]
       /\ Len(driverStmts) = 2

(***************************************************************************)
(* Properties of the generated InsertOrUpdate query (SpecGen).             *)
(***************************************************************************)
RECURSIVE Assignments(_)
\* 'c'=:c for every column c but created_at, in order, joined by ", "
Assignments(cs) ==
    IF cs = <<>> THEN ""
    ELSE IF Head(cs) = "created_at" THEN Assignments(Tail(cs))
    ELSE LET rest == Assignments(Tail(cs))
             one == "'" \o Head(cs) \o "'=:" \o Head(cs)
         IN IF rest = "" THEN one ELSE (one \o ", ") \o rest

\* C10 (as claimed): the ON DUPLICATE KEY UPDATE clause holds the assignment of
\* every column but created_at, once and in declaration order, separated by a
\* single ", " with no leading or trailing separator.
C10_ClauseIsJoinedAssignments ==
    GenDone => clause = Assignments(columns)

====
